---- MODULE Spec2Model ----
(***************************************************************************)
(* Model of the KPI/trend aggregation (AnalyticsService) and of the        *)
(* ensemble forecast combination (MLService) of the supply-chain backend.  *)
(*                                                                         *)
(* Numbers.  The Python code computes in IEEE floats; the model computes   *)
(* in exact fractions [n |-> numerator, d |-> denominator], kept in lowest *)
(* terms with d >= 0.  d = 0 stands for the IEEE specials: 0/0 is NaN and  *)
(* n/0 (n # 0) is +inf / -inf, which is what numpy's true division yields. *)
(* Confidences are carried in hundredths (0.85 is 85).                     *)
(***************************************************************************)
EXTENDS Integers, Sequences, FiniteSets, TLC

VARIABLES
    data,             \* historical_data handed to _calculate_trend_metrics
    recent_avg,       \* local of _calculate_trend_metrics (Unset before/without)
    earlier_avg,      \* local of _calculate_trend_metrics
    trend_analysis,   \* result of _calculate_trend_metrics (NoResult before)
    insights,         \* result of _generate_insights
    recommendations,  \* result of _generate_recommendations
    tpc               \* position inside analyze_trends

trendVars ==
    <<data, recent_avg, earlier_avg, trend_analysis, insights, recommendations,
      tpc>>

VARIABLES
    forecasts,          \* the forecasts dict, as its values in insertion order
    days,               \* the horizon
    weights,            \* local of _create_ensemble_forecast, once normalized
    ensemble_forecast,  \* result of _create_ensemble_forecast
    epc                 \* position of the ensemble step

ensembleVars == <<forecasts, days, weights, ensemble_forecast, epc>>

VARIABLES
    tensorflow_available,  \* TENSORFLOW_AVAILABLE, fixed when the module loads
    rng_table,             \* the standard-normal stream np.random.seed(42) fixes
    rng_pos,               \* draws taken from the global stream since the seed
    historical_data,       \* data frame of _get_historical_demand_data
    features,              \* result of _prepare_demand_features
    include_uncertainty,   \* parameter of predict_demand
    confidence_intervals,  \* local of predict_demand
    raised,                \* the exception predict_demand raised ("none")
    dpc                    \* position inside predict_demand

demandVars ==
    <<tensorflow_available, rng_table, rng_pos, historical_data, features,
      include_uncertainty, confidence_intervals, raised, dpc>>

\* POST /predict of the model-serving service
VARIABLES
    request,               \* the PredictionRequest: model_type and features
    response,              \* the PredictionResponse, once returned
    http_status,           \* 200, or the status of the HTTPException raised
    model_registry,        \* the module's MODEL_REGISTRY dict
    ppc                    \* position inside predict

predictVars == <<request, response, http_status, ppc, model_registry>>

\* invocations of predict_demand on one event loop
VARIABLES
    calls,                 \* per invocation: its arguments, locals, position
    running                \* the invocation that holds the event loop, or 0

callVars == <<calls, running>>

\* MLService.initialize_models
VARIABLES
    models,                \* the keys of self.models
    init_log,              \* what initialize_models and its helpers logged
    init_raised,           \* whether initialize_models raised to its caller
    ipc                    \* position inside initialize_models

initVars == <<models, init_log, init_raised, ipc>>

\* GET /trends and AnalyticsService.analyze_trends
VARIABLES
    trend_query,           \* the query parameters of the request
    trend_data,            \* what analyze_trends returned
    api_response,          \* the APIResponse or the HTTPException
    apc                    \* position inside get_trend_analysis

endpointVars == <<trend_query, trend_data, api_response, apc>>

serviceVars == <<callVars, initVars, endpointVars>>

vars == <<trendVars, ensembleVars, demandVars, predictVars, serviceVars>>

----------------------------------------------------------------------------
(* Bounds of the model *)

\* longest enumerated historical series
MaxLen == 7

\* longest enumerated horizon
MaxDays == 2

\* largest enumerated number of entries of the forecasts dict
MaxGenerators == 3

\* longest enumerated demand series handed to the feature derivation
MaxRows == 31

----------------------------------------------------------------------------
(* Exact arithmetic standing in for Python / numpy floats *)

Abs(x) == IF x < 0 THEN -x ELSE x

Sign(x) == IF x < 0 THEN -1 ELSE IF x > 0 THEN 1 ELSE 0

RECURSIVE GCD(_, _)
GCD(a, b) == IF b = 0 THEN a ELSE GCD(b, a % b)

\* the fraction n/d in canonical form
Rat(n, d) ==
    IF d = 0 THEN [n |-> Sign(n), d |-> 0]
    ELSE LET g == GCD(Abs(n), Abs(d))
         IN  [n |-> Sign(d) * (n \div g), d |-> Abs(d) \div g]

FromInt(i) == [n |-> i, d |-> 1]

NaN == [n |-> 0, d |-> 0]

IsNaN(x) == x.d = 0 /\ x.n = 0

RatSub(x, y) ==
    IF IsNaN(x) \/ IsNaN(y) THEN NaN
    ELSE IF x.d = 0 /\ y.d = 0 THEN (IF x.n = y.n THEN NaN ELSE x)
    ELSE IF x.d = 0 THEN x
    ELSE IF y.d = 0 THEN [n |-> -y.n, d |-> 0]
    ELSE Rat(x.n * y.d - y.n * x.d, x.d * y.d)

RatAdd(x, y) == RatSub(x, [n |-> -y.n, d |-> y.d])

RatMul(x, y) == Rat(x.n * y.n, x.d * y.d)

\* true division; x/0 is +-inf and 0/0 is NaN, as numpy computes them
RatDiv(x, y) ==
    IF IsNaN(x) \/ IsNaN(y) THEN NaN
    ELSE Rat(x.n * y.d * Sign(y.n), x.d * Abs(y.n))

\* comparisons with NaN are all false, as in IEEE arithmetic
RatGt(x, y) == ~IsNaN(x) /\ ~IsNaN(y) /\ x.n * y.d > y.n * x.d

RatLt(x, y) == RatGt(y, x)

RatAbs(x) == [n |-> Abs(x.n), d |-> x.d]

RECURSIVE SumSeq(_)
SumSeq(s) == IF s = <<>> THEN 0 ELSE s[1] + SumSeq(Tail(s))

\* np.mean of a non-empty list of integers
Mean(s) == Rat(SumSeq(s), Len(s))

\* square of np.std (population variance): the standard deviation itself is
\* irrational in general, so the model carries its square
Variance(s) ==
    LET n == Len(s)
        t == SumSeq(s)
        q == SumSeq([i \in 1..n |-> (n * s[i] - t) * (n * s[i] - t)])
    IN  Rat(q, n * n * n)

----------------------------------------------------------------------------
(* Python list slicing *)

Max2(a, b) == IF a > b THEN a ELSE b

Min2(a, b) == IF a < b THEN a ELSE b

\* values[start:]  (a negative start counts from the end, clamped at 0)
SliceFrom(s, start) ==
    LET n == Len(s)
        b == IF start < 0 THEN Max2(n + start, 0) ELSE Min2(start, n)
    IN  SubSeq(s, b + 1, n)

\* values[:stop]
SliceTo(s, stop) ==
    LET n == Len(s)
        e == IF stop < 0 THEN Max2(n + stop, 0) ELSE Min2(stop, n)
    IN  SubSeq(s, 1, e)

----------------------------------------------------------------------------
(* AnalyticsService._calculate_trend_metrics *)

\* size of the "recent" window once the series is long enough
RecentWindow == 7

\* the values a record of the historical series may carry
Values == {-100, 0, 100, 104}

\* a record without a "value" key
NoValueItem == [date |-> 0]

Items == {[value |-> v] : v \in Values} \cup {NoValueItem}

\* item.get("value", 0)
GetValue(item) == IF "value" \in DOMAIN item THEN item.value ELSE 0

ValuesOf(d) == [i \in 1..Len(d) |-> GetValue(d[i])]

\* variant: the recent window always the last half
RecentAvgLastHalf(values) ==
    Mean(SliceFrom(values, (-Len(values)) \div 2))

\* np.mean(values[-7:]) if len(values) >= 7 else np.mean(values[-len(values)//2:])
\* (-len(values)//2 parses as (-len(values)) // 2, a floor division)
RecentAvg(values) ==
    IF Len(values) >= RecentWindow
    THEN Mean(SliceFrom(values, -RecentWindow))
    ELSE Mean(SliceFrom(values, (-Len(values)) \div 2))

\* variant: the first window rounded up instead of down
EarlierAvgCeil(values) ==
    IF Len(values) >= 2
    THEN Mean(SliceTo(values, (Len(values) + 1) \div 2))
    ELSE FromInt(values[1])

\* np.mean(values[:len(values)//2]) if len(values) >= 2 else values[0]
EarlierAvg(values) ==
    IF Len(values) >= 2
    THEN Mean(SliceTo(values, Len(values) \div 2))
    ELSE FromInt(values[1])

\* variant: the zero guard put on the wrong average
ChangePctGuardRecent(r, e) ==
    IF r # FromInt(0)
    THEN RatMul(RatDiv(RatSub(r, e), e), FromInt(100))
    ELSE FromInt(0)

\* variant: the change taken relative to the recent average
ChangePctOverRecent(r, e) ==
    IF e # FromInt(0)
    THEN RatMul(RatDiv(RatSub(r, e), r), FromInt(100))
    ELSE FromInt(0)

\* ((recent_avg - earlier_avg) / earlier_avg * 100) if earlier_avg != 0 else 0
ChangePct(r, e) ==
    IF e # FromInt(0)
    THEN RatMul(RatDiv(RatSub(r, e), e), FromInt(100))
    ELSE FromInt(0)

\* variant: a non-strict first comparison
TrendDirectionGe(c) ==
    IF ~RatLt(c, FromInt(0)) THEN "up"
    ELSE IF RatLt(c, FromInt(0)) THEN "down"
    ELSE "stable"

\* "up" if change_pct > 0 else "down" if change_pct < 0 else "stable"
TrendDirection(c) ==
    IF RatGt(c, FromInt(0)) THEN "up"
    ELSE IF RatLt(c, FromInt(0)) THEN "down"
    ELSE "stable"

InsufficientData == [trend |-> "insufficient_data"]

NoResult == [pending |-> TRUE]

\* a local variable that has not been assigned
Unset == [unset |-> TRUE]

\* variant: the length guard off by one
calculate_trend_metrics_len1(d) ==
    IF Len(d) < 1 THEN InsufficientData
    ELSE LET values == ValuesOf(d)
             c == ChangePct(RecentAvg(values), EarlierAvg(values))
         IN  [trend_direction   |-> TrendDirection(c),
              change_percentage |-> c,
              volatility        |-> IF Len(values) > 1 THEN Variance(values)
                                    ELSE FromInt(0),
              trend_strength    |-> RatAbs(c)]

calculate_trend_metrics(d) ==
    IF Len(d) < 2 THEN InsufficientData
    ELSE LET values == ValuesOf(d)
             c == ChangePct(RecentAvg(values), EarlierAvg(values))
         IN  [trend_direction   |-> TrendDirection(c),
              change_percentage |-> c,
              volatility        |-> IF Len(values) > 1 THEN Variance(values)
                                    ELSE FromInt(0),
              trend_strength    |-> RatAbs(c)]

----------------------------------------------------------------------------
(* AnalyticsService._generate_insights / _generate_recommendations *)

StrongPositive ==
    "Strong positive trend detected - consider scaling current strategies"

Declining ==
    "Declining trend requires immediate attention and corrective action"

Stable == "Metrics are stable - good for consistency planning"

HighVolatility ==
    "High volatility detected - consider implementing smoothing strategies"

InvestigateCauses == "Investigate root causes of declining performance"

ReviewProcedures == "Review and adjust current operational procedures"

\* change_pct > 5 / change_pct < -5
InsightThreshold == 5

\* trend_analysis.get("threshold", 10)
DefaultVolatilityThreshold == 10

\* dict.get(key, default)
Get(rec, key, default) == IF key \in DOMAIN rec THEN rec[key] ELSE default

\* variant: a final else branch reporting "stable"
generate_insights_else_stable(ta) ==
    LET direction == Get(ta, "trend_direction", "None")
        c         == Get(ta, "change_percentage", FromInt(0))
    IN  IF direction = "up" /\ RatGt(c, FromInt(InsightThreshold))
        THEN <<StrongPositive>>
        ELSE IF direction = "down" /\ RatLt(c, FromInt(-InsightThreshold))
        THEN <<Declining>>
        ELSE <<Stable>>

generate_insights(ta) ==
    LET direction == Get(ta, "trend_direction", "None")
        c         == Get(ta, "change_percentage", FromInt(0))
    IN  IF direction = "up" /\ RatGt(c, FromInt(InsightThreshold))
        THEN <<StrongPositive>>
        ELSE IF direction = "down" /\ RatLt(c, FromInt(-InsightThreshold))
        THEN <<Declining>>
        ELSE IF direction = "stable"
        THEN <<Stable>>
        ELSE <<>>

\* the volatility field carries the square of np.std, so the comparison
\* volatility > threshold is made between the squares
generate_recommendations(ta) ==
    LET direction  == Get(ta, "trend_direction", "None")
        volatility == Get(ta, "volatility", FromInt(0))
        threshold  == Get(ta, "threshold", DefaultVolatilityThreshold)
    IN  (IF RatGt(volatility, FromInt(threshold * threshold))
         THEN <<HighVolatility>> ELSE <<>>)
        \o
        (IF direction = "down"
         THEN <<InvestigateCauses, ReviewProcedures>> ELSE <<>>)

----------------------------------------------------------------------------
(* AnalyticsService.analyze_trends, daily granularity: the trend pipeline *)

\* Scenario A of the specification: seven 100s followed by seven 150s
ScenarioA ==
    [i \in 1..14 |-> [value |-> IF i <= 7 THEN 100 ELSE 150]]

Series == UNION {[1..n -> Items] : n \in 0..MaxLen}

\* the ensemble step at rest
EnsembleIdle ==
    /\ forecasts = <<>>
    /\ days = 0
    /\ weights = Unset
    /\ ensemble_forecast = Unset
    /\ epc = "idle"

\* predict_demand at rest
DemandIdle ==
    /\ tensorflow_available = FALSE
    /\ rng_table = <<>>
    /\ rng_pos = 0
    /\ historical_data = Unset
    /\ features = Unset
    /\ include_uncertainty = FALSE
    /\ confidence_intervals = Unset
    /\ raised = "none"
    /\ dpc = "idle"

\* the /predict handler at rest
PredictIdle ==
    /\ request = Unset
    /\ response = Unset
    /\ http_status = 0
    /\ model_registry = Unset
    /\ ppc = "idle"

\* no invocation of predict_demand under way
CallsIdle ==
    /\ calls = <<>>
    /\ running = 0

\* initialize_models not called
InitIdle ==
    /\ models = {}
    /\ init_log = <<>>
    /\ init_raised = FALSE
    /\ ipc = "idle"

\* no request to GET /trends
EndpointIdle ==
    /\ trend_query = Unset
    /\ trend_data = Unset
    /\ api_response = Unset
    /\ apc = "idle"

ServiceIdle == CallsIdle /\ InitIdle /\ EndpointIdle

TrendInit ==
    /\ EnsembleIdle
    /\ PredictIdle
    /\ ServiceIdle
    /\ DemandIdle
    /\ data \in Series \cup {ScenarioA}
    /\ recent_avg = Unset
    /\ earlier_avg = Unset
    /\ trend_analysis = NoResult
    /\ insights = <<>>
    /\ recommendations = <<>>
    /\ tpc = "start"

CalculateTrendMetrics ==
    /\ tpc = "start"
    /\ trend_analysis' = calculate_trend_metrics(data)
    /\ IF Len(data) < 2
       THEN UNCHANGED <<recent_avg, earlier_avg>>
       ELSE /\ recent_avg' = RecentAvg(ValuesOf(data))
            /\ earlier_avg' = EarlierAvg(ValuesOf(data))
    /\ tpc' = "trend"
    /\ UNCHANGED <<data, insights, recommendations, ensembleVars, demandVars,
                   predictVars, serviceVars>>

GenerateInsights ==
    /\ tpc = "trend"
    /\ insights' = generate_insights(trend_analysis)
    /\ tpc' = "insights"
    /\ UNCHANGED <<data, recent_avg, earlier_avg, trend_analysis,
                   recommendations, ensembleVars, demandVars, predictVars,
                   serviceVars>>

GenerateRecommendations ==
    /\ tpc = "insights"
    /\ recommendations' = generate_recommendations(trend_analysis)
    /\ tpc' = "done"
    /\ UNCHANGED <<data, recent_avg, earlier_avg, trend_analysis, insights,
                   ensembleVars, demandVars, predictVars, serviceVars>>

TrendNext ==
    \/ CalculateTrendMetrics
    \/ GenerateInsights
    \/ GenerateRecommendations

SpecTrend == TrendInit /\ [][TrendNext]_vars

----------------------------------------------------------------------------
(* MLService._create_ensemble_forecast *)

\* forecast.get("confidence", 0.8), in hundredths
DefaultConfidence == 80

\* the fallback draws 100 + np.random.normal(0, 10) for every day
FallbackValues == {90, 100, 110}

\* the predictions of every forecast that has a "predictions" key
PredictionsList(fs) ==
    LET kept == SelectSeq(fs, LAMBDA f : "predictions" \in DOMAIN f)
    IN  [i \in 1..Len(kept) |-> kept[i].predictions]

\* variant: a confidence taken from every forecast, failed ones included
RawWeightsOfAll(fs) ==
    [i \in 1..Len(fs) |-> Get(fs[i], "confidence", DefaultConfidence)]

\* the confidence of every forecast that has a "predictions" key
RawWeights(fs) ==
    LET kept == SelectSeq(fs, LAMBDA f : "predictions" \in DOMAIN f)
    IN  [i \in 1..Len(kept) |-> Get(kept[i], "confidence", DefaultConfidence)]

\* variant: the weights divided by their number instead of their sum
NormalizeWeightsByCount(ws) ==
    [i \in 1..Len(ws) |-> RatDiv(FromInt(ws[i]), FromInt(Len(ws)))]

\* np.array(weights) / sum(weights)
NormalizeWeights(ws) ==
    [i \in 1..Len(ws) |-> RatDiv(FromInt(ws[i]), FromInt(SumSeq(ws)))]

RECURSIVE RatSum(_)
RatSum(s) == IF s = <<>> THEN FromInt(0) ELSE RatAdd(s[1], RatSum(Tail(s)))

\* Python's max(x, y): y only if y > x, so a NaN first argument is returned
PyMax(x, y) == IF RatGt(y, x) THEN y ELSE x

\* variant: the plain average of the day's predictions
PlainAverage(ws, pl, day) ==
    RatDiv(RatSum([i \in 1..Len(pl) |-> FromInt(pl[i][day])]),
           FromInt(Len(pl)))

\* sum(w * p for w, p in zip(weights, day_predictions))
WeightedPrediction(ws, pl, day) ==
    RatSum([i \in 1..Len(pl) |-> RatMul(ws[i], FromInt(pl[i][day]))])

\* the weighted-average branch: one floored prediction per day
EnsemblePredictions(ws, pl, n) ==
    [day \in 1..n |-> PyMax(WeightedPrediction(ws, pl, day), FromInt(0))]

\* Scenario C of the specification: confidences 0.9, 0.8, 0.82 and day-0
\* predictions 100, 95, 102
ScenarioC ==
    << [predictions |-> <<100>>, confidence |-> 90],
       [predictions |-> <<95>>,  confidence |-> 80],
       [predictions |-> <<102>>, confidence |-> 82] >>

PredValues == {-10, 100}

Confidences == {0, 50}

\* what a generator may hand to the ensemble for a horizon of n days: an
\* error record, or n predictions with or without a confidence
ForecastsFor(n) ==
    {[error |-> "failed"]}
    \cup {[predictions |-> p] : p \in [1..n -> PredValues]}
    \cup {[predictions |-> p, confidence |-> c] :
              p \in [1..n -> PredValues], c \in Confidences}

\* the trend pipeline at rest
TrendIdle ==
    /\ data = <<>>
    /\ recent_avg = Unset
    /\ earlier_avg = Unset
    /\ trend_analysis = NoResult
    /\ insights = <<>>
    /\ recommendations = <<>>
    /\ tpc = "idle"

EnsembleInit ==
    /\ TrendIdle
    /\ PredictIdle
    /\ ServiceIdle
    /\ DemandIdle
    /\ \/ /\ days \in 1..MaxDays
          /\ forecasts \in
                 UNION {[1..g -> ForecastsFor(days)] : g \in 0..MaxGenerators}
       \/ /\ days = 1
          /\ forecasts = ScenarioC
    /\ weights = Unset
    /\ ensemble_forecast = Unset
    /\ epc = "start"

\* variant: an empty predictions_list raises instead of falling back
CreateEnsembleForecastRaising ==
    /\ epc = "start"
    /\ LET predictions_list == PredictionsList(forecasts)
           w == NormalizeWeights(RawWeights(forecasts))
       IN  IF predictions_list = <<>>
           THEN /\ raised' = "NoGeneratorsAvailableError"
                /\ weights' = <<>>
                /\ UNCHANGED ensemble_forecast
           ELSE /\ weights' = w
                /\ ensemble_forecast' =
                      EnsemblePredictions(w, predictions_list, days)
                /\ UNCHANGED raised
    /\ epc' = "done"
    /\ UNCHANGED <<forecasts, days, trendVars, tensorflow_available,
                   rng_table, rng_pos, historical_data, features,
                   include_uncertainty, confidence_intervals, dpc,
                   predictVars, serviceVars>>

CreateEnsembleForecast ==
    /\ epc = "start"
    /\ LET predictions_list == PredictionsList(forecasts)
           w == NormalizeWeights(RawWeights(forecasts))
       IN  IF predictions_list = <<>>
           THEN /\ \E fb \in [1..days -> FallbackValues] :
                      ensemble_forecast' = [d \in 1..days |-> FromInt(fb[d])]
                /\ weights' = <<>>
           ELSE /\ weights' = w
                /\ ensemble_forecast' =
                      EnsemblePredictions(w, predictions_list, days)
    /\ epc' = "done"
    /\ UNCHANGED <<forecasts, days, trendVars, demandVars, predictVars,
                   serviceVars>>

EnsembleNext == CreateEnsembleForecast

SpecEnsemble == EnsembleInit /\ [][EnsembleNext]_vars

----------------------------------------------------------------------------
(* MLService._prepare_demand_features                                      *)
(*                                                                         *)
(* A data frame is [date |-> column, demand |-> column]; a date is the     *)
(* number of days since 2023-01-01, the first date of the sample range.    *)
(* Row i of pandas (0-based) is element i + 1 of a column.  pandas marks a *)
(* missing value with NaN.  Like the volatility above, a rolling standard  *)
(* deviation is carried as its square.                                     *)

Lags == {1, 7, 14, 30}

Windows == {7, 14, 30}

\* 2023-01-01 is a Sunday; pandas counts Monday as 0
FirstDayOfWeek == 6

MonthLengths == <<31, 28, 31, 30, 31, 30, 31, 31, 30, 31, 30, 31>>

\* .dt.dayofyear, for the dates of 2023
DayOfYear(t) == t + 1

RECURSIVE MonthFrom(_, _)
MonthFrom(doy, m) ==
    IF m >= 12 \/ doy <= MonthLengths[m] THEN m
    ELSE MonthFrom(doy - MonthLengths[m], m + 1)

\* .dt.month
MonthOf(t) == MonthFrom(DayOfYear(t), 1)

\* .dt.quarter
QuarterOf(t) == ((MonthOf(t) - 1) \div 3) + 1

\* .dt.dayofweek
DayOfWeek(t) == (FirstDayOfWeek + t) % 7

\* variant: missing leading values filled with 0
ShiftZeroFilled(col, lag) ==
    [i \in 1..Len(col) |-> IF i > lag THEN FromInt(col[i - lag])
                           ELSE FromInt(0)]

\* Series.shift(lag): the value lag rows earlier, NaN for the first lag rows
Shift(col, lag) ==
    [i \in 1..Len(col) |-> IF i > lag THEN FromInt(col[i - lag]) ELSE NaN]

\* variant: a window that already reports with one row fewer
RollingMeanEarly(col, window) ==
    [i \in 1..Len(col) |->
        IF i >= window - 1 /\ i >= 1
        THEN Mean(SubSeq(col, Max2(i - window + 1, 1), i))
        ELSE NaN]

\* Series.rolling(window).mean(): NaN until window rows are available
RollingMean(col, window) ==
    [i \in 1..Len(col) |->
        IF i >= window THEN Mean(SubSeq(col, i - window + 1, i)) ELSE NaN]

\* sum of squared deviations from the mean, times Len(x)^2
ScaledSquares(x) ==
    LET n == Len(x)
        t == SumSeq(x)
    IN  SumSeq([i \in 1..n |-> (n * x[i] - t) * (n * x[i] - t)])

\* variant: the variance with divisor n (ddof = 0)
PopulationVariance(x) == Rat(ScaledSquares(x), Len(x) * Len(x) * Len(x))

\* square of Series.std(): pandas' default ddof = 1, divisor n - 1
SampleVariance(x) ==
    Rat(ScaledSquares(x), Len(x) * Len(x) * (Len(x) - 1))

\* Series.rolling(window).std(), squared
RollingStd(col, window) ==
    [i \in 1..Len(col) |->
        IF i >= window THEN SampleVariance(SubSeq(col, i - window + 1, i))
        ELSE NaN]

prepare_demand_features(df) ==
    LET date   == df.date
        demand == df.demand
        n      == Len(demand)
    IN  [day_of_week  |-> [i \in 1..n |-> DayOfWeek(date[i])],
         month        |-> [i \in 1..n |-> MonthOf(date[i])],
         quarter      |-> [i \in 1..n |-> QuarterOf(date[i])],
         day_of_year  |-> [i \in 1..n |-> DayOfYear(date[i])],
         demand_lag   |-> [lag \in Lags |-> Shift(demand, lag)],
         demand_rolling_mean |->
             [window \in Windows |-> RollingMean(demand, window)],
         demand_rolling_std |->
             [window \in Windows |-> RollingStd(demand, window)],
         demand_trend |-> [i \in 1..n |-> i - 1]]

----------------------------------------------------------------------------
(* The global numpy random stream                                          *)
(*                                                                         *)
(* np.random.seed(42) fixes the stream of standard-normal draws; which     *)
(* values it holds is not known to the model, so the stream is any table   *)
(* over ZValues, read cyclically.  np.random.normal(loc, scale) is         *)
(* loc + scale * z for the next z of the stream.                           *)

ZValues == {-13, 1}

RngPeriod == 3 * MaxDays

RngTables == [0..(RngPeriod - 1) -> ZValues]

\* the draw number pos (0-based) after the seed
Draw(pos) == rng_table[pos % RngPeriod]

\* np.random.normal(loc, scale) taken as draw number pos
Normal(loc, scale, pos) == loc + scale * Draw(pos)

----------------------------------------------------------------------------
(* MLService.predict_demand and the steps it calls *)

\* len(historical_data) < 30
MinHistory == 30

\* the sample accessor always builds the rows 2023-01-01 .. 2025-12-01; the
\* database query it stands for may return any number of rows, so the
\* lengths around the guard are enumerated
HistoryLengths == {0, 29, 30, 31}

\* base_demand 100 plus np.random.normal(0, 10, len(dates)), floored at 0
\* (the trend and seasonality terms, fixed functions of the row number, are
\* left out: no step of the pipeline but the feature derivation reads the
\* demand values)
SampleDemand(n) ==
    [i \in 1..n |-> Max2(100 + Normal(0, 10, i - 1), 0)]

DataFrame(demand) ==
    [date |-> [i \in 1..Len(demand) |-> i - 1], demand |-> demand]

\* variant: the guard one row too lenient
InsufficientHistoryOffByOne(df) == Len(df.demand) < MinHistory - 1

InsufficientHistory(df) == Len(df.demand) < MinHistory

\* the three generators: base_value, np.random.normal(loc, scale), the
\* reported model_type and confidence (in hundredths)
LstmModel ==
    [base |-> 100, loc |-> 0, scale |-> 10,
     model_type |-> "LSTM", confidence |-> 85]

RandomForestModel ==
    [base |-> 95, loc |-> 5, scale |-> 8,
     model_type |-> "Random Forest", confidence |-> 80]

GradientBoostingModel ==
    [base |-> 102, loc |-> 3, scale |-> 7,
     model_type |-> "Gradient Boosting", confidence |-> 82]

\* variant: the predictions appended without the floor at 0
GeneratorPredictionsUnfloored(m, n, pos) ==
    [d \in 1..n |-> m.base + Normal(m.loc, m.scale, pos + d - 1)]

\* for day in range(days): predictions.append(max(prediction, 0))
GeneratorPredictions(m, n, pos) ==
    [d \in 1..n |->
        Max2(m.base + Normal(m.loc, m.scale, pos + d - 1), 0)]

\* the dict a generator returns
GeneratorForecast(m, n, pos) ==
    [predictions |-> GeneratorPredictions(m, n, pos),
     model_type  |-> m.model_type,
     confidence  |-> m.confidence]

\* std_error = 5.0
StdError == 5

\* 1.96
ZScore == Rat(196, 100)

\* variant: the two bounds exchanged
calculate_confidence_intervals_swapped(fc) ==
    LET half == RatMul(ZScore, FromInt(StdError))
    IN  [lower_bound |-> [d \in 1..Len(fc) |-> RatAdd(fc[d], half)],
         upper_bound |-> [d \in 1..Len(fc) |-> RatSub(fc[d], half)],
         confidence_level |-> Rat(95, 100)]

\* variant: a standard error that grows with the day
calculate_confidence_intervals_per_day(fc) ==
    LET half(d) == RatMul(ZScore, FromInt(StdError * d))
    IN  [lower_bound |-> [d \in 1..Len(fc) |-> RatSub(fc[d], half(d))],
         upper_bound |-> [d \in 1..Len(fc) |-> RatAdd(fc[d], half(d))],
         confidence_level |-> Rat(95, 100)]

calculate_confidence_intervals(fc) ==
    LET half == RatMul(ZScore, FromInt(StdError))
    IN  [lower_bound |-> [d \in 1..Len(fc) |-> RatSub(fc[d], half)],
         upper_bound |-> [d \in 1..Len(fc) |-> RatAdd(fc[d], half)],
         confidence_level |-> Rat(95, 100)]

\* python None
None == [none |-> TRUE]

\* _analyze_feature_importance, _calculate_performance_metrics and
\* _generate_demand_recommendations are called by predict_demand but are
\* not part of the source at hand; they are taken to return normally
MissingHelpersReturn == TRUE

DemandInit ==
    /\ TrendIdle
    /\ PredictIdle
    /\ ServiceIdle
    /\ tensorflow_available \in BOOLEAN
    /\ rng_table \in RngTables
    /\ rng_pos = 0
    /\ historical_data = Unset
    /\ features = Unset
    /\ include_uncertainty \in BOOLEAN
    /\ confidence_intervals = Unset
    /\ raised = "none"
    /\ dpc = "start"
    /\ days \in 1..MaxDays
    /\ forecasts = <<>>
    /\ weights = Unset
    /\ ensemble_forecast = Unset
    /\ epc = "idle"

\* historical_data = await self._get_historical_demand_data(product_sku)
GetHistoricalDemandData ==
    /\ dpc = "start"
    /\ \E n \in HistoryLengths :
          /\ historical_data' = DataFrame(SampleDemand(n))
          /\ rng_pos' = n
    /\ dpc' = "fetched"
    /\ UNCHANGED <<tensorflow_available, rng_table, features,
                   include_uncertainty, confidence_intervals, raised,
                   trendVars, ensembleVars, predictVars, serviceVars>>

\* if len(historical_data) < 30: raise ValueError(...)
CheckHistoryLength ==
    /\ dpc = "fetched"
    /\ IF InsufficientHistory(historical_data)
       THEN raised' = "ValueError" /\ dpc' = "raised"
       ELSE raised' = raised /\ dpc' = "features"
    /\ UNCHANGED <<tensorflow_available, rng_table, rng_pos, historical_data,
                   features, include_uncertainty, confidence_intervals,
                   trendVars, ensembleVars, predictVars, serviceVars>>

\* variant: the LSTM generator called whether or not TensorFlow is there
PrepareDemandFeaturesThenLstm ==
    /\ dpc = "features"
    /\ features' = prepare_demand_features(historical_data)
    /\ dpc' = "lstm"
    /\ UNCHANGED <<tensorflow_available, rng_table, rng_pos, historical_data,
                   include_uncertainty, confidence_intervals, raised,
                   trendVars, ensembleVars, predictVars, serviceVars>>

\* features = await self._prepare_demand_features(historical_data)
PrepareDemandFeatures ==
    /\ dpc = "features"
    /\ features' = prepare_demand_features(historical_data)
    /\ dpc' = IF tensorflow_available THEN "lstm" ELSE "random_forest"
    /\ UNCHANGED <<tensorflow_available, rng_table, rng_pos, historical_data,
                   include_uncertainty, confidence_intervals, raised,
                   trendVars, ensembleVars, predictVars, serviceVars>>

\* one generator call and the assignment of its result into forecasts
RunGenerator(m, here, next) ==
    /\ dpc = here
    /\ forecasts' = Append(forecasts, GeneratorForecast(m, days, rng_pos))
    /\ rng_pos' = rng_pos + days
    /\ dpc' = next
    /\ UNCHANGED <<tensorflow_available, rng_table, historical_data, features,
                   include_uncertainty, confidence_intervals, raised,
                   trendVars, days, weights, ensemble_forecast, epc,
                   predictVars, serviceVars>>

\* if TENSORFLOW_AVAILABLE: forecasts["lstm"] = ...
PredictWithLstm == RunGenerator(LstmModel, "lstm", "random_forest")

\* variant: the combination called before Gradient Boosting has run
PredictWithRandomForestThenEnsemble ==
    RunGenerator(RandomForestModel, "random_forest", "call_ensemble")

PredictWithRandomForest ==
    RunGenerator(RandomForestModel, "random_forest", "gradient_boosting")

PredictWithGradientBoosting ==
    RunGenerator(GradientBoostingModel, "gradient_boosting", "call_ensemble")

\* the call of _create_ensemble_forecast(forecasts, days)
CallCreateEnsembleForecast ==
    /\ dpc = "call_ensemble"
    /\ epc' = "start"
    /\ dpc' = "ensemble"
    /\ UNCHANGED <<tensorflow_available, rng_table, rng_pos, historical_data,
                   features, include_uncertainty, confidence_intervals, raised,
                   trendVars, forecasts, days, weights, ensemble_forecast,
                   predictVars, serviceVars>>

\* confidence_intervals = None; if include_uncertainty: ...
CalculateConfidenceIntervals ==
    /\ dpc = "ensemble" /\ epc = "done"
    /\ confidence_intervals' =
          IF include_uncertainty
          THEN calculate_confidence_intervals(ensemble_forecast)
          ELSE None
    /\ dpc' = "intervals"
    /\ UNCHANGED <<tensorflow_available, rng_table, rng_pos, historical_data,
                   features, include_uncertainty, raised,
                   trendVars, ensembleVars, predictVars, serviceVars>>

\* the remaining helper calls and the return of the result dict
ReturnPrediction ==
    /\ dpc = "intervals"
    /\ MissingHelpersReturn
    /\ dpc' = "returned"
    /\ UNCHANGED <<tensorflow_available, rng_table, rng_pos, historical_data,
                   features, include_uncertainty, confidence_intervals, raised,
                   trendVars, ensembleVars, predictVars, serviceVars>>

DemandNext ==
    \/ GetHistoricalDemandData
    \/ CheckHistoryLength
    \/ PrepareDemandFeatures
    \/ PredictWithLstm
    \/ PredictWithRandomForest
    \/ PredictWithGradientBoosting
    \/ CallCreateEnsembleForecast
    \/ CreateEnsembleForecast
    \/ CalculateConfidenceIntervals
    \/ ReturnPrediction

SpecDemand == DemandInit /\ [][DemandNext]_vars

----------------------------------------------------------------------------
(* The feature derivation on its own, over enumerated demand series *)

\* a ramp with one raised row (no raised row when spike = 0)
SpikedRamp(n, spike) ==
    [i \in 1..n |-> 3 * i + (IF i = spike THEN 40 ELSE 0)]

FeatureFrames ==
    {DataFrame(SpikedRamp(n, spike)) : n \in 0..MaxRows, spike \in 0..MaxRows}

FeaturesInit ==
    /\ TrendIdle
    /\ PredictIdle
    /\ ServiceIdle
    /\ EnsembleIdle
    /\ tensorflow_available \in BOOLEAN
    /\ rng_table = <<>>
    /\ rng_pos = 0
    /\ historical_data \in FeatureFrames
    /\ features = Unset
    /\ include_uncertainty = FALSE
    /\ confidence_intervals = Unset
    /\ raised = "none"
    /\ dpc = "features"

FeaturesNext == PrepareDemandFeatures

SpecFeatures == FeaturesInit /\ [][FeaturesNext]_vars

----------------------------------------------------------------------------
(* The trend metrics on longer series                                      *)
(*                                                                         *)
(* The windows of _calculate_trend_metrics depend on the length of the     *)
(* series only; the series here are ramps with one raised point, so that   *)
(* every point of a window shows in its average.                           *)

\* longest series of this specification
MaxSeries == 14

WindowSeries ==
    {[i \in 1..n |-> [value |-> SpikedRamp(n, spike)[i]]] :
         n \in 0..MaxSeries, spike \in 0..MaxSeries}

WindowsInit ==
    /\ EnsembleIdle
    /\ PredictIdle
    /\ ServiceIdle
    /\ DemandIdle
    /\ data \in WindowSeries
    /\ recent_avg = Unset
    /\ earlier_avg = Unset
    /\ trend_analysis = NoResult
    /\ insights = <<>>
    /\ recommendations = <<>>
    /\ tpc = "start"

SpecWindows == WindowsInit /\ [][TrendNext]_vars

----------------------------------------------------------------------------
(* Invocations of predict_demand on one event loop                         *)
(*                                                                         *)
(* predict_demand is a coroutine; the service runs its invocations on one  *)
(* asyncio event loop (the ThreadPoolExecutor of __init__ is never used).  *)
(* An invocation keeps the loop until an await of it suspends.  Every      *)
(* coroutine of the source that predict_demand awaits runs to its return   *)
(* without awaiting anything itself, so none of them suspends; the three   *)
(* helpers that are not part of the source at hand may.  All invocations   *)
(* draw from the one global numpy stream.                                  *)

\* an invocation and another one, under way at once
CallIds == {1, 2}

\* positions of predict_demand at which an await of source code suspends
SourceSuspensionPointsWithAccessor == {"fetched"}

SourceSuspensionPoints == {}

\* _analyze_feature_importance, _calculate_performance_metrics and
\* _generate_demand_recommendations may suspend
MissingHelperSuspensionPoints == {"helpers"}

\* where an invocation gives up the event loop
Yielding ==
    SourceSuspensionPoints \cup MissingHelperSuspensionPoints
        \cup {"returned", "raised"}

\* the stream after np.random.seed(42): tables with one low draw
CallRngTables ==
    {[p \in 0..(RngPeriod - 1) |-> IF p = s THEN -13 ELSE 1] :
        s \in 0..(RngPeriod - 1)}

CallHistoryLengths == {29, 30, 31}

\* the locals of an invocation that has not run yet
NewCall(d) ==
    [pc |-> "start", days |-> d, historical_data |-> Unset,
     forecasts |-> <<>>, ensemble_forecast |-> Unset,
     confidence_intervals |-> Unset]

CallsInit ==
    /\ TrendIdle
    /\ EnsembleIdle
    /\ PredictIdle
    /\ InitIdle
    /\ EndpointIdle
    /\ tensorflow_available \in BOOLEAN
    /\ rng_table \in CallRngTables
    /\ rng_pos \in 0..(RngPeriod - 1)
    /\ historical_data = Unset
    /\ features = Unset
    /\ include_uncertainty = FALSE
    /\ confidence_intervals = Unset
    /\ raised = "none"
    /\ dpc = "idle"
    /\ calls \in [CallIds -> {NewCall(d) : d \in 1..MaxDays}]
    /\ running = 0

\* invocation i, holding the event loop or taking the free loop, moves from
\* here to next with the locals rec
InvokeStep(i, here, next, rec) ==
    /\ running \in {0, i}
    /\ calls[i].pc = here
    /\ calls' = [calls EXCEPT ![i] = [rec EXCEPT !.pc = next]]
    /\ running' = IF next \in Yielding THEN 0 ELSE i
    /\ UNCHANGED <<tensorflow_available, rng_table, historical_data, features,
                   include_uncertainty, confidence_intervals, raised, dpc,
                   trendVars, ensembleVars, predictVars, initVars,
                   endpointVars>>

\* historical_data = await self._get_historical_demand_data(product_sku):
\* np.random.seed(42), then one draw per row
InvokeGetHistoricalDemandData(i) ==
    \E n \in CallHistoryLengths :
        /\ InvokeStep(i, "start", "fetched",
                      [calls[i] EXCEPT
                          !.historical_data = DataFrame(SampleDemand(n))])
        /\ rng_pos' = n

\* the length guard and, past it, _prepare_demand_features (no later step
\* reads the features: the generators ignore their features argument)
InvokeCheckHistoryLength(i) ==
    /\ InvokeStep(i, "fetched",
                  IF InsufficientHistory(calls[i].historical_data)
                  THEN "raised"
                  ELSE IF tensorflow_available THEN "lstm"
                  ELSE "random_forest",
                  calls[i])
    /\ UNCHANGED rng_pos

\* one generator call: days draws from the global stream
InvokeRunGenerator(i, m, here, next) ==
    /\ InvokeStep(i, here, next,
                  [calls[i] EXCEPT
                      !.forecasts =
                          Append(@, GeneratorForecast(m, calls[i].days,
                                                      rng_pos))])
    /\ rng_pos' = rng_pos + calls[i].days

InvokePredictWithLstm(i) ==
    InvokeRunGenerator(i, LstmModel, "lstm", "random_forest")

InvokePredictWithRandomForest(i) ==
    InvokeRunGenerator(i, RandomForestModel, "random_forest",
                       "gradient_boosting")

InvokePredictWithGradientBoosting(i) ==
    InvokeRunGenerator(i, GradientBoostingModel, "gradient_boosting",
                       "ensemble")

\* the weighted average of the forecasts (there are always two or three)
InvokeCreateEnsembleForecast(i) ==
    /\ InvokeStep(i, "ensemble", "combined",
                  [calls[i] EXCEPT
                      !.ensemble_forecast =
                          EnsemblePredictions(
                              NormalizeWeights(RawWeights(calls[i].forecasts)),
                              PredictionsList(calls[i].forecasts),
                              calls[i].days)])
    /\ UNCHANGED rng_pos

\* include_uncertainty keeps its default, True
InvokeCalculateConfidenceIntervals(i) ==
    /\ InvokeStep(i, "combined", "helpers",
                  [calls[i] EXCEPT
                      !.confidence_intervals =
                          calculate_confidence_intervals(
                              calls[i].ensemble_forecast)])
    /\ UNCHANGED rng_pos

\* the helper calls, resumed, and the return of the result dict
InvokeReturn(i) ==
    /\ MissingHelpersReturn
    /\ InvokeStep(i, "helpers", "returned", calls[i])
    /\ UNCHANGED rng_pos

CallsNext ==
    \E i \in CallIds :
        \/ InvokeGetHistoricalDemandData(i)
        \/ InvokeCheckHistoryLength(i)
        \/ InvokePredictWithLstm(i)
        \/ InvokePredictWithRandomForest(i)
        \/ InvokePredictWithGradientBoosting(i)
        \/ InvokeCreateEnsembleForecast(i)
        \/ InvokeCalculateConfidenceIntervals(i)
        \/ InvokeReturn(i)

SpecCalls == CallsInit /\ [][CallsNext]_vars

----------------------------------------------------------------------------
(* MLService.initialize_models                                             *)
(*                                                                         *)
(* Each helper assigns its models one after the other inside one try       *)
(* block; an exception of a constructor (or of _create_lstm_model, which   *)
(* is not part of the source at hand) ends the block, is logged by the     *)
(* helper's except clause and goes no further.                             *)

DemandModelKeys ==
    IF tensorflow_available
    THEN <<"lstm_demand", "rf_demand", "gb_demand">>
    ELSE <<"rf_demand", "gb_demand">>

RiskModelKeys == <<"supplier_risk", "operational_risk", "financial_risk">>

SupplierModelKeys == <<"performance_anomaly", "supplier_clustering">>

OptimizationModelKeys == <<"route_cost_predictor">>

InitializeInit ==
    /\ TrendIdle
    /\ EnsembleIdle
    /\ PredictIdle
    /\ CallsIdle
    /\ EndpointIdle
    /\ tensorflow_available \in BOOLEAN
    /\ rng_table = <<>>
    /\ rng_pos = 0
    /\ historical_data = Unset
    /\ features = Unset
    /\ include_uncertainty = FALSE
    /\ confidence_intervals = Unset
    /\ raised = "none"
    /\ dpc = "idle"
    /\ models = {}
    /\ init_log = <<>>
    /\ init_raised = FALSE
    /\ ipc = "demand"

\* one _initialize_*_models helper: the first k assignments succeed; when
\* one raises, the except clause logs the error and the helper returns
InitializeHelper(keys, here, next, done, failed) ==
    /\ ipc = here
    /\ \E k \in 0..Len(keys) :
          /\ models' = models \cup {keys[i] : i \in 1..k}
          /\ init_log' = Append(init_log, IF k = Len(keys) THEN done
                                          ELSE failed)
    /\ ipc' = next
    /\ UNCHANGED <<init_raised, trendVars, ensembleVars, demandVars,
                   predictVars, callVars, endpointVars>>

InitializeDemandForecastingModels ==
    InitializeHelper(DemandModelKeys, "demand", "risk",
                     "Demand forecasting models initialized",
                     "Error initializing demand models")

InitializeRiskPredictionModels ==
    InitializeHelper(RiskModelKeys, "risk", "supplier",
                     "Risk prediction models initialized",
                     "Error initializing risk models")

InitializeSupplierPerformanceModels ==
    InitializeHelper(SupplierModelKeys, "supplier", "optimization",
                     "Supplier performance models initialized",
                     "Error initializing supplier models")

InitializeOptimizationModels ==
    InitializeHelper(OptimizationModelKeys, "optimization", "finish",
                     "Optimization models initialized",
                     "Error initializing optimization models")

\* logger.info("ML models initialized successfully") and the return; no
\* exception reaches the except clause of initialize_models
FinishInitializeModels ==
    /\ ipc = "finish"
    /\ init_log' = Append(init_log, "ML models initialized successfully")
    /\ ipc' = "returned"
    /\ UNCHANGED <<models, init_raised, trendVars, ensembleVars, demandVars,
                   predictVars, callVars, endpointVars>>

InitializeNext ==
    \/ InitializeDemandForecastingModels
    \/ InitializeRiskPredictionModels
    \/ InitializeSupplierPerformanceModels
    \/ InitializeOptimizationModels
    \/ FinishInitializeModels

SpecInitialize == InitializeInit /\ [][InitializeNext]_vars

----------------------------------------------------------------------------
(* GET /trends and AnalyticsService.analyze_trends                         *)
(*                                                                         *)
(* _get_historical_data and MLService.generate_forecast are called by      *)
(* analyze_trends but are not part of the source at hand; they are taken   *)
(* to return normally, the accessor with any short series.                 *)

\* the granularities the endpoint documents, and one it does not
Granularities == {"hourly", "daily", "weekly", "monthly", "yearly"}

\* {"7d": 7, "30d": 30, "90d": 90, "1y": 365}
DaysBack == [x \in {"7d", "30d", "90d", "1y"} |->
                CASE x = "7d" -> 7 [] x = "30d" -> 30
                  [] x = "90d" -> 90 [] x = "1y" -> 365]

\* the time periods the endpoint documents, and one it does not
TimePeriods == DOMAIN DaysBack \cup {"2w"}

TrendQueries ==
    [metric_name : {"inventory_turnover"}, time_period : TimePeriods,
     granularity : Granularities, include_forecasting : BOOLEAN]

\* what the historical data accessor may return
AccessorSeries ==
    UNION {[1..n -> {[value |-> 100], [value |-> 104]}] : n \in 0..2}

\* what generate_forecast returns
ForecastData == [forecast |-> "generated"]

\* the dict analyze_trends returns in the daily branch
TrendResult(q, hist) ==
    LET ta == calculate_trend_metrics(hist)
    IN  [metric_name |-> q.metric_name,
         historical_data |-> hist,
         trend_analysis |-> ta,
         forecast |-> IF q.include_forecasting THEN ForecastData ELSE None,
         insights |-> generate_insights(ta),
         recommendations |-> generate_recommendations(ta)]

EndpointInit ==
    /\ TrendIdle
    /\ EnsembleIdle
    /\ DemandIdle
    /\ PredictIdle
    /\ CallsIdle
    /\ InitIdle
    /\ trend_query \in TrendQueries
    /\ trend_data = Unset
    /\ api_response = Unset
    /\ apc = "start"

\* analyze_trends: only the daily branch exists; the lookup of an unknown
\* time period raises KeyError, which is logged and re-raised; any other
\* granularity falls off the end of the function, which returns None
AnalyzeTrends ==
    /\ apc = "start"
    /\ IF trend_query.granularity = "daily"
       THEN IF trend_query.time_period \notin DOMAIN DaysBack
            THEN trend_data' = [raised |-> "KeyError"]
            ELSE \E hist \in AccessorSeries :
                     trend_data' = TrendResult(trend_query, hist)
       ELSE trend_data' = None
    /\ apc' = "analyzed"
    /\ UNCHANGED <<trend_query, api_response, trendVars, ensembleVars,
                   demandVars, predictVars, callVars, initVars>>

\* get_trend_analysis: the APIResponse around the result, or
\* HTTPException(500) around any exception
GetTrendAnalysis ==
    /\ apc = "analyzed"
    /\ api_response' =
          IF "raised" \in DOMAIN trend_data
          THEN [status_code |-> 500]
          ELSE [status_code |-> 200,
                success |-> TRUE,
                message |-> "Trend analysis completed successfully",
                data |-> trend_data]
    /\ apc' = "responded"
    /\ UNCHANGED <<trend_query, trend_data, trendVars, ensembleVars,
                   demandVars, predictVars, callVars, initVars>>

EndpointNext == AnalyzeTrends \/ GetTrendAnalysis

SpecEndpoint == EndpointInit /\ [][EndpointNext]_vars

----------------------------------------------------------------------------
(* POST /predict of the model-serving service (src/ml_models)              *)
(*                                                                         *)
(* features is a Dict[str, Any]: a feature is absent, an integer, or a     *)
(* value that is not a number (a string, None), on which min, max and *   *)
(* raise TypeError.  Floats are exact fractions.  prediction_time, the     *)
(* wall clock at the return, is not carried.                               *)

\* largest enumerated supplier_risk; the smallest is as far below 0
MaxSupplierRisk == 105

MODEL_REGISTRY ==
    [demand_forecasting |-> [version |-> "1.0.0", status |-> "ready"],
     risk_prediction    |-> [version |-> "1.0.0", status |-> "ready"],
     route_optimization |-> [version |-> "1.0.0", status |-> "ready"]]

ModelTypes == DOMAIN MODEL_REGISTRY \cup {"price_prediction"}

Num(v) == [numeric |-> TRUE, v |-> v]

NonNumeric == [numeric |-> FALSE]

FeatureKeys == {"supplier_risk", "base_demand", "base_distance"}

FeatureValues(key) ==
    IF key = "supplier_risk"
    THEN {Num(v) : v \in (100 - MaxSupplierRisk)..MaxSupplierRisk}
             \cup {NonNumeric}
    ELSE {Num(80), NonNumeric}

\* a key the features dict does not hold
Absent == [absent |-> TRUE]

\* every features dict over the keys the handler reads
FeatureDicts ==
    {LET held == [supplier_risk |-> r, base_demand |-> d, base_distance |-> t]
     IN  [key \in {k \in FeatureKeys : held[k] # Absent} |-> held[key]] :
         r \in FeatureValues("supplier_risk") \cup {Absent},
         d \in FeatureValues("base_demand") \cup {Absent},
         t \in FeatureValues("base_distance") \cup {Absent}}

\* request.features.get(key, default)
FeatureGet(fs, key, default) ==
    IF key \in DOMAIN fs THEN fs[key] ELSE Num(default)

DefaultSupplierRisk == 50

\* variant: only the upper bound applied
ClampUpperOnly(x) == Min2(100, x)

\* min(100, max(0, x))
Clamp(x) == Min2(100, Max2(0, x))

\* variant: the threshold included in "medium"
RiskLevelInclusive(supplier_risk) ==
    IF supplier_risk <= 70 THEN "medium" ELSE "high"

\* "medium" if supplier_risk < 70 else "high"
RiskLevel(supplier_risk) ==
    IF supplier_risk < 70 THEN "medium" ELSE "high"

\* the feature the branch of model_type reads
FeatureRead(model_type, fs) ==
    CASE model_type = "demand_forecasting" -> FeatureGet(fs, "base_demand", 100)
      [] model_type = "risk_prediction" ->
             FeatureGet(fs, "supplier_risk", DefaultSupplierRisk)
      [] model_type = "route_optimization" ->
             FeatureGet(fs, "base_distance", 100)

\* the mock prediction of each model type, for a numeric feature x
Prediction(model_type, x) ==
    CASE model_type = "demand_forecasting" ->
             [forecasted_demand   |-> Rat(11 * x, 10),
              confidence_interval |-> <<90, 110>>,
              seasonal_factor     |-> Rat(105, 100)]
      [] model_type = "risk_prediction" ->
             [risk_score |-> Clamp(x),
              risk_level |-> RiskLevel(x),
              top_risks  |-> <<"delivery_delay", "quality_issues">>]
      [] model_type = "route_optimization" ->
             [optimal_route  |->
                  <<"warehouse", "customer1", "customer2", "warehouse">>,
              total_distance |-> Rat(9 * x, 10),
              cost_savings   |-> FromInt(15)]

\* elapsed milliseconds the handler may report after its 0.1 s sleep
ProcessingTimes == {100, 101}

PredictInit ==
    /\ TrendIdle
    /\ EnsembleIdle
    /\ DemandIdle
    /\ ServiceIdle
    /\ model_registry = MODEL_REGISTRY
    /\ request \in [model_type : ModelTypes, features : FeatureDicts]
    /\ response = Unset
    /\ http_status = 0
    /\ ppc = "start"

\* variant: the HTTPException of the validation caught by the general
\* handler and re-raised as 500
ValidateModelTypeAs500 ==
    /\ ppc = "start"
    /\ IF request.model_type \notin DOMAIN model_registry
       THEN http_status' = 500 /\ ppc' = "raised"
       ELSE http_status' = http_status /\ ppc' = "validated"
    /\ UNCHANGED <<request, response, model_registry, trendVars,
                   ensembleVars, demandVars, serviceVars>>

\* if request.model_type not in MODEL_REGISTRY: raise HTTPException(400);
\* otherwise the handler goes to sleep
ValidateModelType ==
    /\ ppc = "start"
    /\ IF request.model_type \notin DOMAIN model_registry
       THEN http_status' = 400 /\ ppc' = "raised"
       ELSE http_status' = http_status /\ ppc' = "validated"
    /\ UNCHANGED <<request, response, model_registry, trendVars,
                   ensembleVars, demandVars, serviceVars>>

\* the mock prediction and the PredictionResponse; a TypeError of the
\* arithmetic is caught and re-raised as HTTPException(500)
Predict ==
    /\ ppc = "validated"
    /\ LET x == FeatureRead(request.model_type, request.features)
       IN  IF x.numeric
           THEN /\ \E ms \in ProcessingTimes :
                     response' =
                         [prediction |-> Prediction(request.model_type, x.v),
                          confidence |-> 85,
                          model_version |->
                              model_registry[request.model_type].version,
                          processing_time_ms |-> ms]
                /\ http_status' = 200
                /\ ppc' = "returned"
           ELSE /\ response' = response
                /\ http_status' = 500
                /\ ppc' = "raised"
    /\ UNCHANGED <<request, model_registry, trendVars, ensembleVars,
                   demandVars, serviceVars>>

PredictNext == ValidateModelType \/ Predict

SpecPredict == PredictInit /\ [][PredictNext]_vars

----------------------------------------------------------------------------
(* Properties of the trend pipeline (checked under SpecTrend) *)

TrendCalculated == tpc # "start"

TrendFields ==
    {"trend_direction", "change_percentage", "volatility", "trend_strength"}

\* C1: for every series of length >= 2 the returned trend_direction is "up"
\* if change_percentage > 0, "down" if it is < 0, and "stable" if and only
\* if it is exactly 0; trend_strength is the absolute value of
\* change_percentage.
C1_DirectionFollowsSign ==
    (TrendCalculated /\ Len(data) >= 2) =>
        LET c   == trend_analysis.change_percentage
            dir == trend_analysis.trend_direction
            str == trend_analysis.trend_strength
        IN  /\ c.d > 0
            /\ (c.n > 0 => dir = "up")
            /\ (c.n < 0 => dir = "down")
            /\ (dir = "stable" <=> c.n = 0)
            /\ str.n >= 0 /\ str.d > 0
            /\ str.n * c.d = Abs(c.n) * str.d

C1_Witness ==
    /\ tpc = "trend" /\ Len(data) >= 2
    /\ trend_analysis.trend_direction = "down"
    /\ trend_analysis.change_percentage.n < 0
    /\ trend_analysis.trend_strength.n > 0

\* C2: a series of length 0 or 1 returns exactly the sentinel
\* {trend: "insufficient_data"} and none of the four result fields; a series
\* of length >= 2 returns all four fields and no sentinel.
C2_SentinelOrFullResult ==
    TrendCalculated =>
        IF Len(data) < 2
        THEN /\ DOMAIN trend_analysis = {"trend"}
             /\ trend_analysis.trend = "insufficient_data"
        ELSE DOMAIN trend_analysis = TrendFields

C2_Witness ==
    /\ tpc = "trend" /\ Len(data) = 1
    /\ trend_analysis = [trend |-> "insufficient_data"]

\* C3: change_pct is (recent_avg - earlier_avg) / earlier_avg * 100 when
\* earlier_avg is not 0 and is 0 when earlier_avg is 0, whatever recent_avg
\* is; the result is always a finite number (no division by zero).
C3_ChangePctFormula ==
    (TrendCalculated /\ Len(data) >= 2) =>
        LET c == trend_analysis.change_percentage
            r == recent_avg
            e == earlier_avg
        IN  /\ c.d > 0
            /\ IF e.n # 0
               THEN c.n * (e.n * r.d) = 100 * (r.n * e.d - e.n * r.d) * c.d
               ELSE c.n = 0

C3_Witness ==
    /\ tpc = "trend" /\ Len(data) >= 2
    /\ earlier_avg.n = 0 /\ recent_avg.n # 0
    /\ trend_analysis.change_percentage = FromInt(0)

\* C4: for a series of length n >= 2, recent_avg is the mean of the last 7
\* points when n >= 7 and the mean of the last half (n div 2 points, the
\* size of the first half) when n < 7, also for odd n.
C4_RecentIsLastHalf ==
    (TrendCalculated /\ Len(data) >= 2) =>
        LET values == ValuesOf(data)
            n      == Len(values)
            k      == IF n >= 7 THEN 7 ELSE n \div 2
        IN  recent_avg.n * k =
                recent_avg.d * SumSeq(SubSeq(values, n - k + 1, n))

\* C5: for a series of length n >= 2, earlier_avg is the mean of the first
\* floor(n/2) points, which for n = 2 is the first point alone; the window
\* is never empty.
C5_EarlierIsFirstHalf ==
    (TrendCalculated /\ Len(data) >= 2) =>
        LET values == ValuesOf(data)
            n      == Len(values)
            k      == n \div 2
        IN  /\ k >= 1
            /\ earlier_avg.d > 0
            /\ earlier_avg.n * k = earlier_avg.d * SumSeq(SubSeq(values, 1, k))
            /\ (n = 2 => earlier_avg = FromInt(values[1]))

C5_Witness ==
    /\ tpc = "trend" /\ Len(data) = 5
    /\ LET values == ValuesOf(data)
       IN  /\ earlier_avg.n * 2 = earlier_avg.d * (values[1] + values[2])
           /\ earlier_avg.n * 3 #
                  earlier_avg.d * (values[1] + values[2] + values[3])

\* C6: the 14-point series of seven 100s followed by seven 150s yields
\* recent_avg = 150, earlier_avg = 100, change_pct = 50 and direction "up".
C6_ScenarioA ==
    (TrendCalculated /\ data = ScenarioA) =>
        /\ recent_avg = FromInt(150)
        /\ earlier_avg = FromInt(100)
        /\ trend_analysis.change_percentage = FromInt(50)
        /\ trend_analysis.trend_direction = "up"

C6_Witness ==
    /\ tpc = "trend" /\ data = ScenarioA
    /\ trend_analysis.trend_direction = "up"

InsightsGenerated == tpc \in {"insights", "done"}

StrongUp(ta) ==
    /\ "trend_direction" \in DOMAIN ta /\ ta.trend_direction = "up"
    /\ ta.change_percentage.n > 5 * ta.change_percentage.d

StrongDown(ta) ==
    /\ "trend_direction" \in DOMAIN ta /\ ta.trend_direction = "down"
    /\ ta.change_percentage.n < (-5) * ta.change_percentage.d

\* C7 as stated: every trend analysis result is classified into exactly one
\* of "strong positive" (up and change_pct > 5), "declining" (down and
\* change_pct < -5) and "stable" (every other case).
C7_StableOtherwise ==
    (InsightsGenerated /\ Len(data) >= 2) =>
        insights = IF StrongUp(trend_analysis) THEN <<StrongPositive>>
                   ELSE IF StrongDown(trend_analysis) THEN <<Declining>>
                   ELSE <<Stable>>

\* C7 as amended: "strong positive" when up and change_pct > 5, "declining"
\* when down and change_pct < -5, "stable" when the direction is "stable",
\* and no insight at all in every other case (up with change_pct <= 5, down
\* with change_pct >= -5, the insufficient-data sentinel).
C7_StableOnlyWhenStable ==
    InsightsGenerated =>
        insights = IF StrongUp(trend_analysis) THEN <<StrongPositive>>
                   ELSE IF StrongDown(trend_analysis) THEN <<Declining>>
                   ELSE IF /\ "trend_direction" \in DOMAIN trend_analysis
                           /\ trend_analysis.trend_direction = "stable"
                        THEN <<Stable>>
                   ELSE <<>>

C7_Witness ==
    /\ tpc = "insights"
    /\ "trend_direction" \in DOMAIN trend_analysis
    /\ trend_analysis.trend_direction = "up"
    /\ trend_analysis.change_percentage.n > 0
    /\ ~StrongUp(trend_analysis)
    /\ insights = <<>>

----------------------------------------------------------------------------
(* Properties of the ensemble combination (checked under SpecEnsemble) *)

EnsembleDone == epc = "done"

\* the generators that contribute: the forecasts carrying predictions
Contributing == SelectSeq(forecasts, LAMBDA f : "predictions" \in DOMAIN f)

ConfOf(f) == IF "confidence" \in DOMAIN f THEN f.confidence ELSE 80

ConfTotal == SumSeq([i \in 1..Len(Contributing) |-> ConfOf(Contributing[i])])

\* sum over the contributing generators of conf_i * prediction_i[d]
ConfWeightedSum(d) ==
    SumSeq([i \in 1..Len(Contributing) |->
               ConfOf(Contributing[i]) * Contributing[i].predictions[d]])

PredictionSum(d) ==
    SumSeq([i \in 1..Len(Contributing) |-> Contributing[i].predictions[d]])

\* |x - milli/1000| <= tol/1000
Near(x, milli, tol) ==
    x.d > 0 /\ Abs(1000 * x.n - milli * x.d) <= tol * x.d

\* C8: for every day the ensemble point prediction is the sum over the
\* contributing generators of (conf_i / sum of conf_j) * prediction_i[d],
\* floored at 0 (stated where that quotient exists: some confidence is not
\* zero); confidences 0.9, 0.8, 0.82 with predictions 100, 95, 102 give
\* weights about 0.357, 0.317, 0.325 and a point of about 99.0.
C8_WeightedAverageFloored ==
    (EnsembleDone /\ Contributing # <<>> /\ ConfTotal # 0) =>
        /\ Len(ensemble_forecast) = days
        /\ \A d \in 1..days :
              LET x == ensemble_forecast[d]
              IN  /\ x.d > 0
                  /\ IF ConfWeightedSum(d) >= 0
                     THEN x.n * ConfTotal = ConfWeightedSum(d) * x.d
                     ELSE x.n = 0
        /\ forecasts = ScenarioC =>
              /\ Near(weights[1], 357, 1)
              /\ Near(weights[2], 317, 1)
              /\ Near(weights[3], 325, 1)
              /\ Near(ensemble_forecast[1], 99000, 100)

C8_Witness ==
    /\ EnsembleDone /\ Len(Contributing) >= 2 /\ ConfTotal # 0
    /\ \E i, j \in 1..Len(Contributing) :
          /\ ConfOf(Contributing[i]) # ConfOf(Contributing[j])
          /\ ConfOf(Contributing[i]) # 0 /\ ConfOf(Contributing[j]) # 0
          /\ Contributing[i].predictions[1] # Contributing[j].predictions[1]
    /\ ensemble_forecast[1].n > 0
    /\ days = 2 /\ ensemble_forecast[2] = FromInt(0) /\ ConfWeightedSum(2) < 0

\* C9: whenever at least one contributing generator reports a non-zero
\* confidence, the normalized weights sum to 1 and each weight is conf_i
\* divided by the sum of all contributing confidences.
C9_WeightsNormalized ==
    (EnsembleDone /\ \E i \in 1..Len(Contributing) :
                         ConfOf(Contributing[i]) # 0) =>
        /\ Len(weights) = Len(Contributing)
        /\ RatSum(weights) = FromInt(1)
        /\ \A i \in 1..Len(weights) :
              /\ weights[i].d > 0
              /\ weights[i].n * ConfTotal =
                     ConfOf(Contributing[i]) * weights[i].d

C9_Witness ==
    /\ EnsembleDone /\ Len(Contributing) = 3 /\ Len(forecasts) = 3
    /\ ConfOf(Contributing[1]) = 0
    /\ ConfOf(Contributing[2]) = 50
    /\ ConfOf(Contributing[3]) = 80
    /\ weights[2] = [n |-> 5, d |-> 13]

\* C10: when every contributing generator reports confidence 0, the
\* ensemble is the unweighted average of their predictions for each day: a
\* defined, non-negative number for every day.
C10_ZeroConfidenceFallsBackToAverage ==
    (EnsembleDone /\ Contributing # <<>>
        /\ \A i \in 1..Len(Contributing) : ConfOf(Contributing[i]) = 0) =>
        /\ Len(ensemble_forecast) = days
        /\ \A d \in 1..days :
              LET x == ensemble_forecast[d]
              IN  /\ x.d > 0
                  /\ x.n >= 0
                  /\ PredictionSum(d) >= 0 =>
                         x.n * Len(Contributing) = PredictionSum(d) * x.d

----------------------------------------------------------------------------
(* Properties of predict_demand (checked under SpecDemand) *)

IntervalsComputed ==
    dpc \in {"intervals", "returned"} /\ include_uncertainty

\* x <= y for two finite fractions
Leq(x, y) == x.d > 0 /\ y.d > 0 /\ x.n * y.d <= y.n * x.d

\* C11: whenever predict_demand computed confidence intervals, lower_bound
\* and upper_bound are as long as the point forecast and
\* lower[d] <= point[d] <= upper[d] for every day d.
C11_BoundsBracketPoint ==
    IntervalsComputed =>
        /\ Len(confidence_intervals.lower_bound) = Len(ensemble_forecast)
        /\ Len(confidence_intervals.upper_bound) = Len(ensemble_forecast)
        /\ \A d \in 1..Len(ensemble_forecast) :
              /\ Leq(confidence_intervals.lower_bound[d], ensemble_forecast[d])
              /\ Leq(ensemble_forecast[d], confidence_intervals.upper_bound[d])

C11_Witness ==
    /\ IntervalsComputed /\ dpc = "returned"
    /\ Len(ensemble_forecast) = 2
    /\ confidence_intervals.lower_bound[1].n < 0
    /\ confidence_intervals.lower_bound[2].n > 0
    /\ ensemble_forecast[1].n > 0

\* x - y = hundredths / 100, for two finite fractions
DiffIs(x, y, hundredths) ==
    /\ x.d > 0 /\ y.d > 0
    /\ RatSub(x, y) = Rat(hundredths, 100)

\* C12: within one call lower[d] = point[d] - 1.96 * sigma and
\* upper[d] = point[d] + 1.96 * sigma with one sigma (5.0) for every day,
\* so the width upper[d] - lower[d] is the same for all days.
C12_OneSigmaPerCall ==
    IntervalsComputed =>
        \A d \in 1..Len(ensemble_forecast) :
            LET lower == confidence_intervals.lower_bound[d]
                upper == confidence_intervals.upper_bound[d]
                point == ensemble_forecast[d]
            IN  /\ DiffIs(point, lower, 196 * StdError)
                /\ DiffIs(upper, point, 196 * StdError)
                /\ DiffIs(upper, lower, 2 * 196 * StdError)

C12_Witness ==
    /\ IntervalsComputed /\ dpc = "intervals"
    /\ Len(ensemble_forecast) = 2
    /\ ensemble_forecast[1] # ensemble_forecast[2]
    /\ RatSub(confidence_intervals.upper_bound[2],
              confidence_intervals.lower_bound[2]) = Rat(98, 5)

\* C13: for every requested horizon H each individual model forecast and
\* the ensemble forecast of predict_demand hold exactly H point predictions
\* and every point prediction is >= 0.
C13_HorizonLengthNonNegative ==
    /\ \A i \in 1..Len(forecasts) :
          /\ "predictions" \in DOMAIN forecasts[i]
          /\ Len(forecasts[i].predictions) = days
          /\ \A d \in 1..days : forecasts[i].predictions[d] >= 0
    /\ dpc \in {"intervals", "returned"} =>
          /\ Len(forecasts) = IF tensorflow_available THEN 3 ELSE 2
          /\ Len(ensemble_forecast) = days
          /\ \A d \in 1..days :
                ensemble_forecast[d].d > 0 /\ ensemble_forecast[d].n >= 0

C13_Witness ==
    /\ dpc = "returned" /\ days = 2 /\ Len(forecasts) = 3
    /\ forecasts[1].predictions[1] = 0
    /\ forecasts[2].predictions[2] > 0
    /\ ensemble_forecast[1].n > 0

NothingDerived ==
    /\ features = Unset
    /\ forecasts = <<>>
    /\ ensemble_forecast = Unset
    /\ confidence_intervals = Unset

\* C14: with fewer than 30 observations predict_demand fails with the
\* insufficient-data error (a ValueError) before any feature is derived or
\* any generator is run, and returns no forecast; with 30 or more
\* observations the error is not raised.
C14_ShortHistoryFailsFirst ==
    /\ dpc \in {"start", "fetched"} => NothingDerived /\ raised = "none"
    /\ dpc \notin {"start", "fetched"} =>
          IF Len(historical_data.demand) < 30
          THEN raised = "ValueError" /\ dpc = "raised" /\ NothingDerived
          ELSE raised = "none" /\ dpc # "raised"

C14_Witness ==
    /\ dpc = "raised" /\ raised = "ValueError"
    /\ Len(historical_data.demand) = 29
    /\ NothingDerived

----------------------------------------------------------------------------
(* Further properties of the ensemble combination (under SpecEnsemble) *)

SomeGeneratorFailed ==
    Contributing # <<>> /\ Len(Contributing) < Len(forecasts)

\* C16: when some but not all generators fail, the failed ones are left
\* out, the weights of the remaining ones are renormalized to sum to 1
\* over the survivors only, and the combined forecast is the weighted
\* average of the survivors' predictions (floored at 0).  As in P4 the
\* normalization is stated for confidences that are not all zero.
C16_FailedGeneratorsDropped ==
    (EnsembleDone /\ SomeGeneratorFailed /\ ConfTotal # 0) =>
        /\ Len(weights) = Len(Contributing)
        /\ RatSum(weights) = FromInt(1)
        /\ \A i \in 1..Len(Contributing) :
              weights[i] = Rat(ConfOf(Contributing[i]), ConfTotal)
        /\ Len(ensemble_forecast) = days
        /\ \A d \in 1..days :
              ensemble_forecast[d] =
                  IF ConfWeightedSum(d) >= 0
                  THEN Rat(ConfWeightedSum(d), ConfTotal)
                  ELSE FromInt(0)

C16_Witness ==
    /\ EnsembleDone /\ Len(forecasts) = 3 /\ days = 1
    /\ "error" \in DOMAIN forecasts[2]
    /\ Len(Contributing) = 2
    /\ ConfOf(Contributing[1]) = 50 /\ ConfOf(Contributing[2]) = 80
    /\ Contributing[1].predictions[1] = 100
    /\ Contributing[2].predictions[1] = -10
    /\ weights = <<Rat(5, 13), Rat(8, 13)>>
    /\ ensemble_forecast[1] = Rat(420, 13)

FeaturesDerived ==
    dpc \notin {"idle", "start", "fetched", "features", "raised"}

Demand == historical_data.demand

\* C17: lag_k[i] is defined exactly when i >= k (rows counted from 0) and
\* then equals value[i - k]; earlier rows are absent (NaN), not zero;
\* k ranges over 1, 7, 14 and 30.
C17_LagFeatures ==
    FeaturesDerived =>
        /\ DOMAIN features.demand_lag = {1, 7, 14, 30}
        /\ \A k \in {1, 7, 14, 30} :
              /\ Len(features.demand_lag[k]) = Len(Demand)
              /\ \A i \in 0..(Len(Demand) - 1) :
                    IF i >= k
                    THEN features.demand_lag[k][i + 1] =
                             FromInt(Demand[i - k + 1])
                    ELSE IsNaN(features.demand_lag[k][i + 1])

C17_Witness ==
    /\ FeaturesDerived /\ Len(Demand) = 31
    /\ Demand[1] = 43
    /\ features.demand_lag[30][31] = FromInt(43)
    /\ IsNaN(features.demand_lag[30][30])
    /\ features.demand_lag[1][2] = FromInt(43)
    /\ IsNaN(features.demand_lag[1][1])

\* C18: rolling_mean_w[i] is defined exactly when i >= w - 1 (rows counted
\* from 0) and then equals the mean of value[i - w + 1 .. i]; w ranges
\* over 7, 14 and 30.
C18_RollingMeanFeatures ==
    FeaturesDerived =>
        /\ DOMAIN features.demand_rolling_mean = {7, 14, 30}
        /\ \A w \in {7, 14, 30} :
              /\ Len(features.demand_rolling_mean[w]) = Len(Demand)
              /\ \A i \in 0..(Len(Demand) - 1) :
                    IF i >= w - 1
                    THEN features.demand_rolling_mean[w][i + 1] =
                             Rat(SumSeq([j \in 1..w |-> Demand[i - w + 1 + j]]),
                                 w)
                    ELSE IsNaN(features.demand_rolling_mean[w][i + 1])

C18_Witness ==
    /\ FeaturesDerived /\ Len(Demand) = 30
    /\ Demand = [i \in 1..30 |-> 3 * i]
    /\ features.demand_rolling_mean[7][7] = FromInt(12)
    /\ IsNaN(features.demand_rolling_mean[7][6])
    /\ features.demand_rolling_mean[30][30] = Rat(93, 2)
    /\ IsNaN(features.demand_rolling_mean[30][29])

\* the rows value[i - w + 1 .. i] of the demand column, i counted from 0
WindowAt(w, i) == [j \in 1..w |-> Demand[i - w + 1 + j]]

\* C19 as stated: the rolling standard deviation is the population
\* standard deviation of the window (divisor w).  Deviations are compared
\* through their squares.
C19_RollingStdIsPopulation ==
    FeaturesDerived =>
        \A w \in {7, 14, 30} :
            \A i \in 0..(Len(Demand) - 1) :
                IF i >= w - 1
                THEN features.demand_rolling_std[w][i + 1] =
                         Rat(ScaledSquares(WindowAt(w, i)), w * w * w)
                ELSE IsNaN(features.demand_rolling_std[w][i + 1])

\* C19: the rolling standard deviation over a window of w rows is defined
\* exactly when i >= w - 1 and is the sample standard deviation of
\* value[i - w + 1 .. i], with divisor w - 1; w ranges over 7, 14 and 30.
C19_RollingStdIsSample ==
    FeaturesDerived =>
        /\ DOMAIN features.demand_rolling_std = {7, 14, 30}
        /\ \A w \in {7, 14, 30} :
              /\ Len(features.demand_rolling_std[w]) = Len(Demand)
              /\ \A i \in 0..(Len(Demand) - 1) :
                    IF i >= w - 1
                    THEN features.demand_rolling_std[w][i + 1] =
                             Rat(ScaledSquares(WindowAt(w, i)),
                                 w * w * (w - 1))
                    ELSE IsNaN(features.demand_rolling_std[w][i + 1])

C19_Witness ==
    /\ FeaturesDerived /\ Len(Demand) = 31
    /\ SubSeq(Demand, 1, 7) = <<3, 6, 9, 12, 15, 18, 21>>
    /\ features.demand_rolling_std[7][7] = FromInt(42)
    /\ features.demand_rolling_std[7][7] # FromInt(36)
    /\ IsNaN(features.demand_rolling_std[7][6])
    /\ ~IsNaN(features.demand_rolling_std[30][31])

RiskAnswered ==
    ppc = "returned" /\ request.model_type = "risk_prediction"

\* the four-level bucketing of the claim, in the values of RiskLevel
FourLevels(score) ==
    IF score < 25 THEN "low"
    ELSE IF score < 50 THEN "medium"
    ELSE IF score < 75 THEN "high"
    ELSE "critical"

\* C20 as stated: the risk level is LOW below 25, MEDIUM below 50, HIGH
\* below 75 and CRITICAL from 75 on, and a score of 50 is MEDIUM.
C20_FourLevelBuckets ==
    RiskAnswered =>
        /\ response.prediction.risk_level =
               FourLevels(response.prediction.risk_score)
        /\ response.prediction.risk_score = 50 =>
               response.prediction.risk_level = "medium"

\* C20: the risk level POST /predict returns is a function of the returned
\* score alone with one fixed threshold: "medium" if score < 70 and "high"
\* if score >= 70; a score of 50 is "medium".
C20_TwoLevelsAtSeventy ==
    RiskAnswered =>
        /\ response.prediction.risk_level =
               IF response.prediction.risk_score < 70 THEN "medium"
               ELSE "high"
        /\ response.prediction.risk_score = 50 =>
               response.prediction.risk_level = "medium"

C20_Witness ==
    /\ RiskAnswered
    /\ "supplier_risk" \in DOMAIN request.features
    /\ request.features["supplier_risk"] = Num(70)
    /\ response.prediction.risk_score = 70
    /\ response.prediction.risk_level = "high"

\* the supplier_risk the handler read: the feature, or its default 50
RawSupplierRisk ==
    IF "supplier_risk" \in DOMAIN request.features
    THEN request.features["supplier_risk"].v
    ELSE 50

\* C21: the risk_score POST /predict returns for model_type
\* risk_prediction lies in [0, 100] for every numeric supplier_risk, also
\* one outside that range: it is 0 below 0, 100 above 100, and the
\* supplier_risk itself in between.
C21_ScoreClamped ==
    RiskAnswered =>
        LET score == response.prediction.risk_score
            raw   == RawSupplierRisk
        IN  /\ score \in 0..100
            /\ raw < 0 => score = 0
            /\ raw > 100 => score = 100
            /\ raw \in 0..100 => score = raw

C21_Witness ==
    /\ RiskAnswered
    /\ "supplier_risk" \in DOMAIN request.features
    /\ request.features["supplier_risk"] = Num(-5)
    /\ response.prediction.risk_score = 0
    /\ http_status = 200

Registered == request.model_type \in DOMAIN MODEL_REGISTRY

C26_MalformedInputRejected ==
    /\ (tpc # "start" /\ Len(data) >= 2) =>
           \A i \in 1..Len(data) : "value" \in DOMAIN data[i]
    /\ tpc \in {"insights", "done"} =>
           "change_percentage" \in DOMAIN trend_analysis

GeneratorsFinished ==
    dpc \in {"call_ensemble", "ensemble", "intervals", "returned"}

ModelTypesOf(fs) == [i \in 1..Len(fs) |-> fs[i].model_type]

\* C27 as stated: every ensemble forecast of predict_demand combines at
\* least three generator variants, among them the regression-tree ensemble
\* and the gradient-boosted one, also when TensorFlow is unavailable.
C27_AtLeastThreeVariants ==
    GeneratorsFinished =>
        /\ Len(Contributing) >= 3
        /\ \E i \in 1..Len(forecasts) :
               forecasts[i].model_type = "Random Forest"
        /\ \E i \in 1..Len(forecasts) :
               forecasts[i].model_type = "Gradient Boosting"

\* C27: every ensemble forecast of predict_demand combines the Random
\* Forest and the Gradient Boosting variant, and the LSTM variant exactly
\* when TensorFlow is available: three variants with TensorFlow, two
\* without.
C27_ThreeVariantsOnlyWithTensorFlow ==
    GeneratorsFinished =>
        /\ Contributing = forecasts
        /\ ModelTypesOf(forecasts) =
               IF tensorflow_available
               THEN <<"LSTM", "Random Forest", "Gradient Boosting">>
               ELSE <<"Random Forest", "Gradient Boosting">>

C27_Witness ==
    /\ dpc = "returned"
    /\ ~tensorflow_available
    /\ Len(forecasts) = 2
    /\ Len(ensemble_forecast) = days

ExpectedGenerators == IF tensorflow_available THEN 3 ELSE 2

\* C24: in every predict_demand run the historical data is fetched exactly
\* once (in the first step, never again) and before the features are
\* derived; every generator has delivered its forecast before the
\* combination starts, and none is added afterwards; the confidence
\* intervals are computed only after the combination has finished, from the
\* combined forecast, which stays as it was.
C24_StepsInOrder ==
    [][/\ historical_data' # historical_data =>
              dpc = "start" /\ dpc' = "fetched"
       /\ dpc # "start" => dpc' # "start"
       /\ features' # features =>
              /\ dpc = "features"
              /\ historical_data # Unset
              /\ historical_data' = historical_data
       /\ (epc # "start" /\ epc' = "start") =>
              /\ Len(forecasts) = ExpectedGenerators
              /\ forecasts' = forecasts
       /\ epc # "idle" => forecasts' = forecasts
       /\ confidence_intervals' # confidence_intervals =>
              /\ epc = "done"
              /\ ensemble_forecast' = ensemble_forecast
              /\ confidence_intervals' =
                     IF include_uncertainty
                     THEN [lower_bound |->
                               [d \in 1..days |->
                                   RatSub(ensemble_forecast[d], Rat(98, 10))],
                           upper_bound |->
                               [d \in 1..days |->
                                   RatAdd(ensemble_forecast[d], Rat(98, 10))],
                           confidence_level |-> Rat(95, 100)]
                     ELSE None
      ]_vars

C24_Witness ==
    /\ dpc = "returned"
    /\ tensorflow_available /\ include_uncertainty
    /\ Len(historical_data.demand) = 31
    /\ Len(forecasts) = 3
    /\ days = 2
    /\ confidence_intervals.lower_bound[2] =
           RatSub(ensemble_forecast[2], Rat(98, 10))

\* C29: in _calculate_trend_metrics the recent window (the last 7 points,
\* or the last ceil(n/2) below 7) and the earlier window (the first
\* floor(n/2) points) are disjoint and cover the series for 2 <= n <= 6,
\* are disjoint for n >= 13, and for 7 <= n <= 12 share exactly
\* 7 - ceil(n/2) points, which count in both averages.
C29_WindowsOverlap ==
    (TrendCalculated /\ Len(data) >= 2) =>
        LET values  == ValuesOf(data)
            n       == Len(values)
            r       == IF n >= 7 THEN 7 ELSE (n + 1) \div 2
            k       == n \div 2
            Recent  == (n - r + 1)..n
            Earlier == 1..k
            overlap == Cardinality(Recent \cap Earlier)
            Total(S) == SumSeq([i \in 1..n |-> IF i \in S THEN values[i]
                                               ELSE 0])
        IN  /\ recent_avg = Rat(Total(Recent), r)
            /\ earlier_avg = Rat(Total(Earlier), k)
            /\ n \in 2..6 =>
                   overlap = 0 /\ Recent \cup Earlier = 1..n
            /\ n >= 13 => overlap = 0
            /\ n \in 7..12 =>
                   overlap = 7 - ((n + 1) \div 2) /\ overlap >= 1

C29_Witness ==
    /\ tpc = "trend" /\ Len(data) = 9
    /\ data[4].value = 52
    /\ recent_avg = Rat(166, 7)
    /\ earlier_avg = Rat(35, 2)

\* C28: for each documented granularity (hourly, daily, weekly, monthly)
\* and each documented time period (7d, 30d, 90d, 1y) the trend endpoint
\* answers with a trend-analysis result holding the metric name, the
\* historical data, the trend analysis, the insights and the
\* recommendations; a successful response never carries an empty result.
C28_EveryGranularityAnswered ==
    (/\ apc = "responded"
     /\ trend_query.granularity \in {"hourly", "daily", "weekly", "monthly"}
     /\ trend_query.time_period \in {"7d", "30d", "90d", "1y"}) =>
        /\ api_response.status_code = 200
        /\ api_response.data # None
        /\ {"metric_name", "historical_data", "trend_analysis", "insights",
            "recommendations"} \subseteq DOMAIN api_response.data

InitErrors ==
    {"Error initializing demand models", "Error initializing risk models",
     "Error initializing supplier models",
     "Error initializing optimization models"}

\* C25: the core never catches and swallows a failure; a failure raised
\* during model initialization reaches the caller of initialize_models as
\* an error and is never turned into a normal return.
C25_FailuresPropagate ==
    ipc = "returned" =>
        \/ init_raised
        \/ \A i \in 1..Len(init_log) : init_log[i] \notin InitErrors

----------------------------------------------------------------------------
(* Properties of invocations of predict_demand (checked under SpecCalls) *)

\* the invocation has its combined forecast
Combined(i) == calls[i].pc \in {"combined", "helpers", "returned"}

\* under way: started and neither returned nor raised
InFlight(i) == calls[i].pc \notin {"start", "returned", "raised"}

\* C22: the ensemble forecast is a function of its inputs: two runs of the
\* generators and the combination on the same features (the same history),
\* horizon and generator set return the same point predictions, whatever
\* invocations ran before or in between.
C22_SameInputsSameForecast ==
    \A i \in CallIds : \A j \in CallIds :
        ( /\ Combined(i)
          /\ Combined(j)
          /\ calls[i].days = calls[j].days
          /\ calls[i].historical_data = calls[j].historical_data )
        => calls[i].ensemble_forecast = calls[j].ensemble_forecast

\* two invocations on the same inputs, the second run while the first was
\* suspended, and the low draw of the stream among the generators' draws
C22_Witness ==
    /\ calls[1].pc = "helpers"
    /\ calls[2].pc = "returned"
    /\ calls[1].days = calls[2].days
    /\ calls[1].historical_data = calls[2].historical_data
    /\ \E k \in 1..Len(calls[1].forecasts) :
          \E d \in 1..calls[1].days :
              calls[1].forecasts[k].predictions[d] # 
                  calls[1].forecasts[k].predictions[1] 

\* the forecast of an invocation that runs alone: the generators draw
\* right behind the rows of the history
AloneForecast(c) ==
    LET n == Len(c.historical_data.demand)
        gens == IF tensorflow_available
                THEN <<LstmModel, RandomForestModel, GradientBoostingModel>>
                ELSE <<RandomForestModel, GradientBoostingModel>>
        fs == [k \in 1..Len(gens) |->
                  GeneratorForecast(gens[k], c.days, n + (k - 1) * c.days)]
    IN  EnsemblePredictions(NormalizeWeights(RawWeights(fs)),
                            PredictionsList(fs), c.days)

====
